---- MODULE Spec2Model ----
(***************************************************************************)
(* A model of prolif/utils.py: the valence-based repair of bond orders and *)
(* formal charges (update_bonds_and_charges) and the MOL2 reader that      *)
(* splits a file into per-residue blocks (get_mol2_records, mol2_reader,   *)
(* get_residues_from_mol2, residues_from_block).                           *)
(***************************************************************************)
EXTENDS Integers, Sequences, FiniteSets, TLC

VARIABLES
    pc,          \* the position of the running function
    \* ---- update_bonds_and_charges ----
    mol,         \* the molecule: [element, bonds, charge]
    atom,        \* index of the atom the loop of line 19 is at
    i,           \* the enumerate index at which the last neighbour loop ended
    mol0,        \* the molecule on entry (history)
    before,      \* the molecule when the last visit of an atom started (history)
    \* ---- mol2_reader ----
    lines,       \* the lines of the file, each a sequence of symbols
    records,     \* [mol_lines, first_atom_lines, first_bond_lines]
    zipped,      \* how many tuples of the zip of line 123 have been taken
    block,       \* the block cut for the record at hand
    resnames,    \* the residue names of the block
    todo,        \* the residue names the loop of line 192 has yet to take
    atoms,       \* residue name -> its atom lines
    bonds,       \* residue name -> its bond lines
    handed,      \* residue name -> the block handed to the parser and its answer
    residues,    \* the list residues_from_block returns
    molecules    \* the list mol2_reader returns

repairVars == <<mol, atom, i, mol0, before>>

readerVars == <<lines, records, zipped, block, resnames, todo, atoms, bonds,
                handed, residues, molecules>>

vars == <<pc, repairVars, readerVars>>

(***************************************************************************)
(* Bounds of the model.                                                    *)
(***************************************************************************)
\* the largest number of bonds of an input molecule
MaxBonds == 2

\* a molecule with at most MaxBonds bonds has at most MaxBonds + 1 bonded atoms
NumAtoms == MaxBonds + 1

Atoms == 1..NumAtoms

(***************************************************************************)
(* The chemistry toolkit's data.                                           *)
(***************************************************************************)
\* Chem.BondType -> the order of the bond, its share in both atoms' valence
BONDTYPE_TO_RDKIT == [SINGLE |-> 1, DOUBLE |-> 2, TRIPLE |-> 3]

BondTypes == DOMAIN BONDTYPE_TO_RDKIT

\* PERIODIC_TABLE.GetValenceList(atom.GetAtomicNum()) for the model's elements
PERIODIC_TABLE == [C |-> <<4>>, N |-> <<3>>, O |-> <<2>>, S |-> <<2, 4, 6>>]

Elements == DOMAIN PERIODIC_TABLE

(***************************************************************************)
(* Helpers on sequences and sets.                                          *)
(***************************************************************************)
Range(s) == {s[k] : k \in DOMAIN s}

Min(S) == CHOOSE x \in S : \A y \in S : x <= y

RECURSIVE SumSeq(_)
SumSeq(s) == IF s = <<>> THEN 0 ELSE Head(s) + SumSeq(Tail(s))

RECURSIVE SelectIdx(_, _)
\* the indices k >= from at which the sequence of truth values s holds, ascending
SelectIdx(s, from) ==
    IF from > Len(s) THEN <<>>
    ELSE IF s[from] THEN <<from>> \o SelectIdx(s, from + 1)
    ELSE SelectIdx(s, from + 1)

(***************************************************************************)
(* The molecule's accessors.                                               *)
(***************************************************************************)
Touches(b, a) == b.begin = a \/ b.end = a

Other(b, a) == IF b.begin = a THEN b.end ELSE b.begin

\* atom.GetTotalValence(): the sum of the orders of the atom's bonds (every
\* hydrogen is an atom of the molecule, none is implicit)
GetTotalValence(m, a) ==
    SumSeq([k \in DOMAIN m.bonds |->
              IF Touches(m.bonds[k], a)
              THEN BONDTYPE_TO_RDKIT[m.bonds[k].type] ELSE 0])

\* atom.GetNeighbors(): the other ends of the atom's bonds, in native order
GetNeighbors(m, a) ==
    LET idx == SelectIdx([k \in DOMAIN m.bonds |-> Touches(m.bonds[k], a)], 1)
    IN  [k \in DOMAIN idx |-> Other(m.bonds[idx[k]], a)]

\* mol.GetBondBetweenAtoms(a, n): the position of the bond in the bond list
GetBondBetweenAtoms(m, a, n) ==
    CHOOSE k \in DOMAIN m.bonds : Touches(m.bonds[k], a) /\ Touches(m.bonds[k], n)

\* electrons = [ v - vtot for v in valences ]
Electrons(m, a) ==
    LET valences == PERIODIC_TABLE[m.element[a]]
        vtot == GetTotalValence(m, a)
    IN  [k \in DOMAIN valences |-> valences[k] - vtot]

\* set_electrons.intersection(na_electrons)
CommonSet(m, a, na) == Range(Electrons(m, a)) \cap Range(Electrons(m, na))

\* line 28: the only option is to add a positive charge
OnlyPositiveCharge(m, a) == Len(Electrons(m, a)) = 1 /\ Electrons(m, a)[1] < 0

(***************************************************************************)
(* The neighbour loop of lines 36-56.  ScanFrom gives the outcome of the   *)
(* loop from enumerate index k on: the index at which it ended, what it    *)
(* did there ("bond", "charge" or "none"), the neighbour concerned and     *)
(* common_electrons.                                                       *)
(***************************************************************************)
\* the two bond types of lines 51-54 taken for each other
NewBondTypeSwapped(k, old) ==
    IF k = 1 THEN "TRIPLE" ELSE IF k = 2 THEN "DOUBLE" ELSE old

\* lines 51-54: the bond type that a common need of k electrons asks for
NewBondType(k, old) ==
    IF k = 1 THEN "DOUBLE" ELSE IF k = 2 THEN "TRIPLE" ELSE old

\* what the loop would use if it took the least positive common value
LeastPositiveCommon(m, a, na) ==
    LET positive == {x \in CommonSet(m, a, na) : x > 0}
    IN  IF positive = {} THEN Min(CommonSet(m, a, na)) ELSE Min(positive)

\* what the loop would use if it took the greatest common value
GreatestCommon(m, a, na) ==
    CHOOSE x \in CommonSet(m, a, na) : \A y \in CommonSet(m, a, na) : y <= x

\* line 40: common_electrons = min(intersection), when there is a common value
CommonElectrons(m, a, na) == Min(CommonSet(m, a, na))

RECURSIVE ScanFrom(_, _, _, _)
ScanFrom(m, a, neighbors, k) ==
    IF k > Len(neighbors)
    THEN [i |-> k - 1, what |-> "none", na |-> 0, common_electrons |-> 0]
    ELSE LET na == neighbors[k]
         IN  IF CommonSet(m, a, na) = {}
             THEN \* common_electrons is np.nan
                  IF k = Len(neighbors)
                  THEN [i |-> k, what |-> "charge", na |-> na, common_electrons |-> 0]
                  ELSE ScanFrom(m, a, neighbors, k + 1)
             ELSE IF CommonElectrons(m, a, na) = 0
             THEN ScanFrom(m, a, neighbors, k + 1)
             ELSE [i |-> k, what |-> "bond", na |-> na,
                   common_electrons |-> CommonElectrons(m, a, na)]

(***************************************************************************)
(* The input molecules.                                                    *)
(***************************************************************************)
BondRecs == {[begin |-> a, end |-> b, type |-> t] :
               a \in Atoms, b \in Atoms, t \in BondTypes}

PairKey(b) == b.begin * (NumAtoms + 1) + b.end

\* The bond lists of at most MaxBonds bonds between distinct atoms, no pair
\* bonded twice, listed by ascending atom pair or in the reverse of that
\* (with two bonds these are all the orders a list can have).
BondLists ==
    UNION {{bs \in [1..n -> {b \in BondRecs : b.begin < b.end}] :
              \/ \A j, k \in 1..n : j < k => PairKey(bs[j]) < PairKey(bs[k])
              \/ \A j, k \in 1..n : j < k => PairKey(bs[j]) > PairKey(bs[k])}
           : n \in 0..MaxBonds}

\* the reader's variables while update_bonds_and_charges runs
ReaderIdle ==
    /\ lines = <<>>
    /\ records = [mol_lines |-> <<>>, first_atom_lines |-> <<>>,
                  first_bond_lines |-> <<>>]
    /\ zipped = 0
    /\ block = <<>>
    /\ resnames = {}
    /\ todo = {}
    /\ atoms = <<>>
    /\ bonds = <<>>
    /\ handed = <<>>
    /\ residues = <<>>
    /\ molecules = <<>>

Init ==
    /\ pc = "atoms"
    /\ \E el \in [Atoms -> Elements], bs \in BondLists :
          mol = [element |-> el, bonds |-> bs, charge |-> [a \in Atoms |-> 0]]
    /\ atom = 1
    /\ i = 0
    /\ mol0 = mol
    /\ before = mol
    /\ ReaderIdle

(***************************************************************************)
(* update_bonds_and_charges, one action per visit of an atom.              *)
(***************************************************************************)
\* line 19: on to the next atom, or to line 57 after the last one
NextAtom ==
    /\ atom' = atom + 1
    /\ pc' = IF atom = NumAtoms THEN "sanitize" ELSE "atoms"
    /\ before' = mol

\* lines 28-31: the only option is to add a positive charge
SetPositiveCharge ==
    /\ pc = "atoms"
    /\ OnlyPositiveCharge(mol, atom)
    /\ mol' = [mol EXCEPT !.charge[atom] = -Electrons(mol, atom)[1]]
    /\ NextAtom
    /\ UNCHANGED <<i, mol0, readerVars>>

\* lines 32-56: the neighbour loop
ScanNeighbors ==
    /\ pc = "atoms"
    /\ ~OnlyPositiveCharge(mol, atom)
    /\ LET r == ScanFrom(mol, atom, GetNeighbors(mol, atom), 1)
       IN  /\ i' = r.i
           /\ mol' =
                IF r.what = "charge"
                THEN [mol EXCEPT !.charge[atom] = -Electrons(mol, atom)[1]]
                ELSE IF r.what = "bond"
                THEN LET b == GetBondBetweenAtoms(mol, atom, r.na)
                     IN  [mol EXCEPT !.bonds[b].type =
                                        NewBondType(r.common_electrons, @)]
                ELSE mol
    /\ NextAtom
    /\ UNCHANGED <<mol0, readerVars>>

\* line 57: Chem.SanitizeMol(mol) validates the molecule or raises
SanitizeMol ==
    /\ pc = "sanitize"
    /\ pc' \in {"done", "SanitizationError"}
    /\ UNCHANGED <<repairVars, readerVars>>

Next == SetPositiveCharge \/ ScanNeighbors \/ SanitizeMol

Spec == Init /\ [][Next]_vars

(***************************************************************************)
(* MOL2 text.  A line is a sequence of symbols: a blank, a digit, or a     *)
(* word written as one symbol (a record marker, a name).                   *)
(***************************************************************************)
MOLECULE == "@<TRIPOS>MOLECULE"

ATOM == "@<TRIPOS>ATOM"

BOND == "@<TRIPOS>BOND"

Digits == <<"0", "1", "2", "3", "4", "5", "6", "7", "8", "9">>

RECURSIVE Str(_)
\* str(n) of a natural number
Str(n) ==
    IF n < 10 THEN <<Digits[n + 1]>>
    ELSE Str(n \div 10) \o <<Digits[(n % 10) + 1]>>

\* whether int(token) succeeds
IsInt(token) == token # <<>> /\ \A k \in DOMAIN token : token[k] \in Range(Digits)

RECURSIVE ToInt(_)
\* int(token) of a token of digits
ToInt(token) ==
    LET last == (CHOOSE d \in DOMAIN Digits : Digits[d] = token[Len(token)]) - 1
    IN  IF Len(token) = 1 THEN last
        ELSE 10 * ToInt(SubSeq(token, 1, Len(token) - 1)) + last

RECURSIVE SplitFrom(_, _, _)
SplitFrom(line, token, tokens) ==
    IF line = <<>>
    THEN IF token = <<>> THEN tokens ELSE Append(tokens, token)
    ELSE IF Head(line) = " "
    THEN SplitFrom(Tail(line), <<>>,
                   IF token = <<>> THEN tokens ELSE Append(tokens, token))
    ELSE SplitFrom(Tail(line), Append(token, Head(line)), tokens)

\* line.split(): the tokens between the blanks
Split(line) == SplitFrom(line, <<>>, <<>>)

\* s[lo:hi] of Python, for 0 <= lo and 0 <= hi
Slice(s, lo, hi) == SubSeq(s, lo + 1, IF hi < Len(s) THEN hi ELSE Len(s))

\* re.search(marker, line)
Search(marker, line) == \E k \in DOMAIN line : line[k] = marker

\* lines 86-108: the 0-based indices of the lines holding each marker
get_mol2_records(ls) ==
    LET search_molecule(l) == Search(MOLECULE, l)
        search_atom(l) == ~Search(MOLECULE, l) /\ Search(ATOM, l)
        search_bond(l) == ~Search(MOLECULE, l) /\ ~Search(ATOM, l) /\ Search(BOND, l)
        ZeroBased(idx) == [k \in DOMAIN idx |-> idx[k] - 1]
        Where(test(_)) == ZeroBased(SelectIdx([k \in DOMAIN ls |-> test(ls[k])], 1))
    IN  [mol_lines |-> Where(search_molecule),
         first_atom_lines |-> Where(search_atom),
         first_bond_lines |-> Where(search_bond)]

\* lines 136-138 and 157-159: the two counts of the line after the name
ReadCounts(ls, mol_line) ==
    LET data == Split(ls[mol_line + 3])
        Failed(e) == [err |-> e, num_atoms |-> 0, num_bonds |-> 0]
    IN  IF mol_line + 2 >= Len(ls) THEN Failed("IndexError")
        ELSE IF Len(data) < 1 THEN Failed("IndexError")
        ELSE IF ~IsInt(data[1]) THEN Failed("ValueError")
        ELSE IF Len(data) < 2 THEN Failed("IndexError")
        ELSE IF ~IsInt(data[2]) THEN Failed("ValueError")
        ELSE [err |-> "none", num_atoms |-> ToInt(data[1]), num_bonds |-> ToInt(data[2])]

\* line 140: the end of the block that is cut out of the file
BlockEnd(first_atom_line, first_bond_line, num_atoms, num_bonds) ==
    first_atom_line + num_atoms + 1 + num_bonds + 1

\* lines 136-140: the block of the record at mol_line
get_residues_from_mol2(mol_line, first_atom_line, first_bond_line, ls) ==
    LET counts == ReadCounts(ls, mol_line)
    IN  IF counts.err # "none" THEN [err |-> counts.err, block |-> <<>>]
        ELSE [err |-> "none",
              block |-> Slice(ls, mol_line,
                              BlockEnd(first_atom_line, first_bond_line,
                                       counts.num_atoms, counts.num_bonds))]

\* lines 162 and 170: the lines of the ATOM record
AtomSection(blk, first_atom_line, num_atoms) ==
    Slice(blk, first_atom_line + 1, first_atom_line + num_atoms + 1)

\* line 182: the lines of the BOND record
BondSection(blk, first_bond_line, num_bonds) ==
    Slice(blk, first_bond_line + 1, first_bond_line + num_bonds + 1)

\* lines 170-175: atom id -> residue name, a later line replacing an earlier
MapIdToRes(atom_lines) ==
    [id \in {Split(l)[1] : l \in Range(atom_lines)} |->
        LET last == CHOOSE k \in DOMAIN atom_lines :
                      /\ Split(atom_lines[k])[1] = id
                      /\ \A j \in DOMAIN atom_lines :
                            Split(atom_lines[j])[1] = id => j <= k
        IN  Split(atom_lines[last])[8]]

\* a test that lets every bond into the residue of its first atom
AnyResidue(map_id_to_res, atom1, atom2) == atom1 \in DOMAIN map_id_to_res

\* line 187: atom1 and atom2 belong to the same residue
SameResidue(map_id_to_res, atom1, atom2) == map_id_to_res[atom1] = map_id_to_res[atom2]

\* lines 151-189: the residue names, and the atom and bond lines of each
GroupBlock(blk) ==
    LET recs == get_mol2_records(blk)
        Failed(e) == [err |-> e, resnames |-> {}, atoms |-> <<>>, bonds |-> <<>>]
    IN  IF \/ recs.mol_lines = <<>>
           \/ recs.first_atom_lines = <<>>
           \/ recs.first_bond_lines = <<>>
        THEN Failed("IndexError")
        ELSE
        LET mol_line == recs.mol_lines[1]
            first_atom_line == recs.first_atom_lines[1]
            first_bond_line == recs.first_bond_lines[1]
            counts == ReadCounts(blk, mol_line)
            atom_lines == AtomSection(blk, first_atom_line, counts.num_atoms)
            bond_lines == BondSection(blk, first_bond_line, counts.num_bonds)
            map_id_to_res == MapIdToRes(atom_lines)
            names == {Split(l)[8] : l \in Range(atom_lines)}
            \* the bond lines on which lines 183-187 raise
            bad == {k \in DOMAIN bond_lines :
                      \/ Len(Split(bond_lines[k])) < 3
                      \/ Split(bond_lines[k])[2] \notin DOMAIN map_id_to_res
                      \/ Split(bond_lines[k])[3] \notin DOMAIN map_id_to_res}
        IN  IF counts.err # "none" THEN Failed(counts.err)
            ELSE IF \E l \in Range(atom_lines) : Len(Split(l)) < 8
            THEN Failed("IndexError")
            ELSE IF bad # {}
            THEN IF Len(Split(bond_lines[Min(bad)])) < 3
                 THEN Failed("IndexError") ELSE Failed("KeyError")
            ELSE [err |-> "none",
                  resnames |-> names,
                  atoms |-> [r \in names |->
                               LET of(l) == Split(l)[8] = r
                               IN  SelectSeq(atom_lines, of)],
                  bonds |-> [r \in names |->
                               LET of(l) ==
                                     /\ SameResidue(map_id_to_res,
                                                    Split(l)[2], Split(l)[3])
                                     /\ map_id_to_res[Split(l)[2]] = r
                               IN  SelectSeq(bond_lines, of)]]

\* lines 197-199: atom id -> new id, a later line replacing an earlier
MapAtoms(atom_lines) ==
    [id \in {Split(l)[1] : l \in Range(atom_lines)} |->
        CHOOSE k \in DOMAIN atom_lines :
           /\ Split(atom_lines[k])[1] = id
           /\ \A j \in DOMAIN atom_lines : Split(atom_lines[j])[1] = id => j <= k]

\* line 200: new_line = str(i+1) + line[len(atom_id):]
NewAtomLine(k, line) == Str(k) \o Slice(line, Len(Split(line)[1]), Len(line))

\* line 207: '{} {} {} {}'.format(i+1, map_atoms[atom1], map_atoms[atom2], bond_type)
NewBondLine(k, line, map_atoms) ==
    LET data == Split(line)
    IN  Str(k) \o <<" ">> \o Str(map_atoms[data[2]]) \o <<" ">>
        \o Str(map_atoms[data[3]]) \o <<" ">> \o data[4]

\* lines 192-225: the block synthesized for one residue
ResidueMol2Block(resname, atom_lines, bond_lines) ==
    LET map_atoms == MapAtoms(atom_lines)
        new_atoms == [k \in DOMAIN atom_lines |-> NewAtomLine(k, atom_lines[k])]
        new_bonds == [k \in DOMAIN bond_lines |->
                        NewBondLine(k, bond_lines[k], map_atoms)]
    IN  IF \E l \in Range(bond_lines) : Len(Split(l)) < 4
        THEN [err |-> "IndexError", block |-> <<>>]
        ELSE IF \E l \in Range(bond_lines) :
                   \/ Split(l)[2] \notin DOMAIN map_atoms
                   \/ Split(l)[3] \notin DOMAIN map_atoms
        THEN [err |-> "KeyError", block |-> <<>>]
        ELSE [err |-> "none",
              block |-> << <<MOLECULE>>,
                           resname,
                           Str(Len(new_atoms)) \o <<" ">> \o Str(Len(new_bonds)),
                           <<"SMALL">>,
                           <<"USER_CHARGES">>,
                           <<ATOM>> >>
                        \o new_atoms \o << <<BOND>> >> \o new_bonds]

\* a list that keeps what the parser returned, a molecule or None
KeepAnyResidue(list, residue, parsed) == Append(list, residue)

\* lines 227-229: a residue is kept if the parser returned a molecule
KeepResidue(list, residue, parsed) == IF parsed THEN Append(list, residue) ELSE list

(***************************************************************************)
(* The input files.                                                        *)
(***************************************************************************)
\* the most atom lines and bond lines of a record, the most blanks before an
\* atom id, the most lines between the last atom line and the BOND marker
MaxAtomLines == 2

MaxBondLines == 1

MaxLead == 1

MaxGap == 1

ResNames == {<<"LIG1">>, <<"WAT1">>}

\* the id of the first atom of a record; the ids go up by one from there
FirstIds == {1, 5}

Blanks(n) == [k \in 1..n |-> " "]

\* an atom line: id, name, x, y, z, type, substructure id, residue name
AtomLine(lead, id, resname) ==
    Blanks(lead) \o Str(id)
    \o <<" ", "CA", " ", "0", " ", "0", " ", "0", " ", "C.3", " ", "1", " ">>
    \o resname

\* a bond line: id, atom1, atom2, type
BondLine(id, atom1, atom2) ==
    Str(id) \o <<" ">> \o Str(atom1) \o <<" ">> \o Str(atom2) \o <<" ", "1">>

\* A record of the file: res names the residue of each atom, pairs the two
\* atoms of each bond; the header declares extra_atoms and extra_bonds more
\* than there are; gap blank lines precede the BOND record, if there is one.
Record(res, pairs, first_id, lead, gap, extra_atoms, extra_bonds, with_bonds) ==
    << <<MOLECULE>>,
       <<"mol">>,
       Str(Len(res) + extra_atoms) \o <<" ">> \o Str(Len(pairs) + extra_bonds),
       <<"SMALL">>,
       <<"USER_CHARGES">>,
       <<ATOM>> >>
    \o [k \in DOMAIN res |-> AtomLine(lead, first_id + k - 1, res[k])]
    \o [k \in 1..gap |-> <<>>]
    \o IF with_bonds
       THEN << <<BOND>> >>
            \o [k \in DOMAIN pairs |->
                  BondLine(k, first_id + pairs[k][1] - 1, first_id + pairs[k][2] - 1)]
       ELSE <<>>

\* what follows the first record: nothing, a second record, or a second
\* record that has no BOND record
Tails == {"eof", "record", "record_without_bonds"}

Tail2(tail, lead) ==
    IF tail = "eof" THEN <<>>
    ELSE Record(<< <<"LIG1">> >>, <<>>, 1, lead, 0, 0, 0, tail = "record")

\* the declared counts: right, one atom too many, or one bond too many
Excess == {"none", "atoms", "bonds"}

Files ==
    {Record(res, pairs, first_id, lead, gap,
            IF excess = "atoms" THEN 1 ELSE 0,
            IF excess = "bonds" THEN 1 ELSE 0, TRUE)
     \o Tail2(tail, lead) :
        res \in UNION {[1..n -> ResNames] : n \in 1..MaxAtomLines},
        pairs \in UNION {[1..n -> {p \in (1..MaxAtomLines) \X (1..MaxAtomLines) :
                                     p[1] < p[2]}] : n \in 0..MaxBondLines},
        first_id \in FirstIds, lead \in 0..MaxLead, gap \in 0..MaxGap,
        excess \in Excess, tail \in Tails}

\* the variables of update_bonds_and_charges while the reader runs
RepairIdle ==
    /\ mol = [element |-> <<>>, bonds |-> <<>>, charge |-> <<>>]
    /\ atom = 1
    /\ i = 0
    /\ mol0 = mol
    /\ before = mol

\* lines 114-118: the file is read
InitMol2 ==
    /\ pc = "read"
    /\ lines \in Files
    /\ records = [mol_lines |-> <<>>, first_atom_lines |-> <<>>,
                  first_bond_lines |-> <<>>]
    /\ zipped = 0
    /\ block = <<>>
    /\ resnames = {}
    /\ todo = {}
    /\ atoms = <<>>
    /\ bonds = <<>>
    /\ handed = <<>>
    /\ residues = <<>>
    /\ molecules = <<>>
    /\ RepairIdle

(***************************************************************************)
(* mol2_reader and the functions it calls.                                 *)
(***************************************************************************)
\* the length of zip(mol_lines, first_atom_lines, first_bond_lines)
ZipLen(recs) ==
    Min({Len(recs.mol_lines), Len(recs.first_atom_lines), Len(recs.first_bond_lines)})

\* line 121
ReadRecords ==
    /\ pc = "read"
    /\ records' = get_mol2_records(lines)
    /\ pc' = "zip"
    /\ UNCHANGED <<lines, zipped, block, resnames, todo, atoms, bonds, handed,
                   residues, molecules, repairVars>>

\* lines 123-124 and 136-141: the next tuple of the zip, and its block
ExtractBlock ==
    /\ pc = "zip"
    /\ zipped < ZipLen(records)
    /\ LET r == get_residues_from_mol2(records.mol_lines[zipped + 1],
                                       records.first_atom_lines[zipped + 1],
                                       records.first_bond_lines[zipped + 1], lines)
       IN  /\ pc' = IF r.err # "none" THEN r.err ELSE "group"
           /\ block' = r.block
    /\ UNCHANGED <<lines, records, zipped, resnames, todo, atoms, bonds, handed,
                   residues, molecules, repairVars>>

\* lines 151-189: residues_from_block up to the loop of line 192
GroupResidues ==
    /\ pc = "group"
    /\ LET g == GroupBlock(block)
       IN  /\ pc' = IF g.err # "none" THEN g.err
                    ELSE IF g.resnames = {} THEN "built" ELSE "build"
           /\ resnames' = g.resnames
           /\ todo' = g.resnames
           /\ atoms' = g.atoms
           /\ bonds' = g.bonds
    /\ handed' = <<>>
    /\ residues' = <<>>
    /\ UNCHANGED <<lines, records, zipped, block, molecules, repairVars>>

\* lines 192-229: one turn of the loop over the residue names, which a set
\* gives in no particular order; the parser returns a molecule or None
BuildResidue ==
    /\ pc = "build"
    /\ \E resname \in todo, parsed \in BOOLEAN :
          LET r == ResidueMol2Block(resname, atoms[resname], bonds[resname])
              residue == [resname |-> resname, block |-> r.block]
          IN  IF r.err # "none"
              THEN /\ pc' = r.err
                   /\ UNCHANGED <<todo, handed, residues>>
              ELSE /\ handed' = [n \in DOMAIN handed \cup {resname} |->
                                   IF n = resname
                                   THEN [block |-> r.block, parsed |-> parsed]
                                   ELSE handed[n]]
                   /\ residues' = KeepResidue(residues, residue, parsed)
                   /\ todo' = todo \ {resname}
                   /\ pc' = IF todo = {resname} THEN "built" ELSE "build"
    /\ UNCHANGED <<lines, records, zipped, block, resnames, atoms, bonds,
                   molecules, repairVars>>

\* lines 230, 141-143 and 125: the residues join the molecules
ReturnResidues ==
    /\ pc = "built"
    /\ molecules' = molecules \o residues
    /\ zipped' = zipped + 1
    /\ pc' = "zip"
    /\ UNCHANGED <<lines, records, block, resnames, todo, atoms, bonds, handed,
                   residues, repairVars>>

\* line 126: the zip is exhausted
ReturnMolecules ==
    /\ pc = "zip"
    /\ zipped = ZipLen(records)
    /\ pc' = "returned"
    /\ UNCHANGED <<lines, records, zipped, block, resnames, todo, atoms, bonds,
                   handed, residues, molecules, repairVars>>

NextMol2 ==
    \/ ReadRecords
    \/ ExtractBlock
    \/ GroupResidues
    \/ BuildResidue
    \/ ReturnResidues
    \/ ReturnMolecules

SpecMol2 == InitMol2 /\ [][NextMol2]_vars

(***************************************************************************)
(* Properties of update_bonds_and_charges.                                 *)
(***************************************************************************)
\* the atom whose visit ended last, and the bond it shares with a neighbour
Visited == atom - 1

PositionOf(neighbors, n) == CHOOSE k \in DOMAIN neighbors : neighbors[k] = n

\* a neighbour that the loop passes over: no common need, or a least common
\* value of 0
PassedOver(m, a, n) == CommonSet(m, a, n) = {} \/ Min(CommonSet(m, a, n)) = 0

\* C1 (as claimed): at every step and at the end no bond's order is lower
\* than on entry, and the bonded pairs of atoms are those of the entry.
C1_NeverLowered ==
    /\ Len(mol.bonds) = Len(mol0.bonds)
    /\ \A k \in DOMAIN mol0.bonds :
          /\ mol.bonds[k].begin = mol0.bonds[k].begin
          /\ mol.bonds[k].end = mol0.bonds[k].end
          /\ BONDTYPE_TO_RDKIT[mol.bonds[k].type]
                >= BONDTYPE_TO_RDKIT[mol0.bonds[k].type]

\* C2 (as claimed): when an atom is visited before its neighbour n and their
\* deficit sets have exactly {1} in common, the visit sets the bond between
\* them to DOUBLE and changes no other bond, whatever the other neighbours.
C2_AnyNeighbours ==
    atom > 1 =>
      \A n \in Range(GetNeighbors(before, Visited)) :
         (Visited < n /\ CommonSet(before, Visited, n) = {1})
         => mol.bonds = [before.bonds EXCEPT
                           ![GetBondBetweenAtoms(before, Visited, n)].type = "DOUBLE"]

\* C2 (amended): the same, provided every neighbour the visited atom
\* iterates before n is passed over (it has no deficit in common with the
\* atom, or their least common deficit is 0).
C2_FirstCompatibleNeighbour ==
    atom > 1 =>
      LET neighbors == GetNeighbors(before, Visited)
      IN  \A n \in Range(neighbors) :
             ( /\ Visited < n
               /\ CommonSet(before, Visited, n) = {1}
               /\ \A j \in 1..(PositionOf(neighbors, n) - 1) :
                     PassedOver(before, Visited, neighbors[j]) )
             => mol.bonds = [before.bonds EXCEPT
                               ![GetBondBetweenAtoms(before, Visited, n)].type = "DOUBLE"]

\* C2 witness: a visit that passed over an earlier neighbour and then turned
\* the SINGLE bond to a later neighbour n, with {1} in common, into DOUBLE.
C2_Witness ==
    /\ atom > 1
    /\ LET neighbors == GetNeighbors(before, Visited)
       IN  \E n \in Range(neighbors) :
              /\ Visited < n
              /\ CommonSet(before, Visited, n) = {1}
              /\ PositionOf(neighbors, n) = 2
              /\ PassedOver(before, Visited, neighbors[1])
              /\ before.bonds[GetBondBetweenAtoms(before, Visited, n)].type = "SINGLE"
              /\ mol.bonds[GetBondBetweenAtoms(before, Visited, n)].type = "DOUBLE"

\* C9 (as claimed): the visit of an atom whose deficit set contains 0 changes
\* no bond of the atom and leaves its formal charge as it was.
C9_ValidAtomUntouched ==
    (atom > 1 /\ 0 \in Range(Electrons(before, Visited))) =>
      /\ \A k \in DOMAIN before.bonds :
            Touches(before.bonds[k], Visited)
            => mol.bonds[k].type = before.bonds[k].type
      /\ mol.charge[Visited] = before.charge[Visited]

\* C9 (amended): the visit of an atom whose deficit set contains 0 changes no
\* bond to a neighbour whose deficit set contains 0 as well, and leaves the
\* atom's formal charge as it was unless its last neighbour has no deficit
\* in common with it.
C9_ValidPairUntouched ==
    (atom > 1 /\ 0 \in Range(Electrons(before, Visited))) =>
      LET neighbors == GetNeighbors(before, Visited)
      IN  /\ \A k \in DOMAIN before.bonds :
                ( /\ Touches(before.bonds[k], Visited)
                  /\ 0 \in Range(Electrons(before, Other(before.bonds[k], Visited))) )
                => mol.bonds[k].type = before.bonds[k].type
          /\ ( \/ neighbors = <<>>
               \/ CommonSet(before, Visited, neighbors[Len(neighbors)]) # {} )
             => mol.charge[Visited] = before.charge[Visited]

\* C9 witness: an atom with 0 in its deficit set was visited; its bond to a
\* neighbour that has 0 too stayed, its bond to another neighbour was raised.
C9_Witness ==
    /\ atom > 1
    /\ 0 \in Range(Electrons(before, Visited))
    /\ \E j, k \in DOMAIN before.bonds :
          /\ Touches(before.bonds[j], Visited)
          /\ 0 \in Range(Electrons(before, Other(before.bonds[j], Visited)))
          /\ mol.bonds[j].type = before.bonds[j].type
          /\ Touches(before.bonds[k], Visited)
          /\ mol.bonds[k].type # before.bonds[k].type

\* the neighbours, by position, at which the loop of a visit stops: those with
\* a common deficit whose least common deficit is not 0
Stops(m, a) ==
    {j \in DOMAIN GetNeighbors(m, a) :
        /\ CommonSet(m, a, GetNeighbors(m, a)[j]) # {}
        /\ Min(CommonSet(m, a, GetNeighbors(m, a)[j])) # 0}

\* C10 (as claimed): on the neighbour path, at the first neighbour n whose
\* common deficits with the atom are neither none nor only 0, with k the
\* least positive common deficit, the bond is DOUBLE after the visit if
\* k = 1 and TRIPLE if k = 2, and the loop ended at n.
C10_LeastPositiveCommon ==
    (atom > 1 /\ ~OnlyPositiveCharge(before, Visited)) =>
      LET neighbors == GetNeighbors(before, Visited)
          actionable == {j \in DOMAIN neighbors :
                           CommonSet(before, Visited, neighbors[j]) \notin {{}, {0}}}
      IN  actionable # {} =>
            LET j == Min(actionable)
                positive == {x \in CommonSet(before, Visited, neighbors[j]) : x > 0}
                b == GetBondBetweenAtoms(before, Visited, neighbors[j])
            IN  positive # {} =>
                  /\ Min(positive) = 1 => mol.bonds[b].type = "DOUBLE"
                  /\ Min(positive) = 2 => mol.bonds[b].type = "TRIPLE"
                  /\ i = j

\* C10 (amended): on the neighbour path, with k the least deficit common to
\* the atom and a neighbour (0 and negative values counted), the loop ends
\* at the first neighbour that has a common deficit and k # 0; its bond is
\* DOUBLE after the visit if k = 1, TRIPLE if k = 2 and as it was for any
\* other k; no other bond changes; a neighbour with k = 0 is passed over.
C10_LeastCommon ==
    (atom > 1 /\ ~OnlyPositiveCharge(before, Visited) /\ Stops(before, Visited) # {}) =>
      LET neighbors == GetNeighbors(before, Visited)
          j == Min(Stops(before, Visited))
          k == Min(CommonSet(before, Visited, neighbors[j]))
          b == GetBondBetweenAtoms(before, Visited, neighbors[j])
      IN  /\ i = j
          /\ k = 1 => mol.bonds[b].type = "DOUBLE"
          /\ k = 2 => mol.bonds[b].type = "TRIPLE"
          /\ k \notin {1, 2} => mol.bonds[b].type = before.bonds[b].type
          /\ \A c \in DOMAIN before.bonds : c # b => mol.bonds[c] = before.bonds[c]

\* C10 witness: a visit passed over its first neighbour, whose least common
\* deficit is 0 although a positive one is common too, and raised the bond
\* to its second neighbour, with least common deficit 2, to TRIPLE.
C10_Witness ==
    /\ atom > 1
    /\ ~OnlyPositiveCharge(before, Visited)
    /\ Stops(before, Visited) # {}
    /\ Min(Stops(before, Visited)) = 2
    /\ i = 2
    /\ LET neighbors == GetNeighbors(before, Visited)
           b == GetBondBetweenAtoms(before, Visited, neighbors[2])
       IN  /\ CommonSet(before, Visited, neighbors[1]) \notin {{}, {0}}
           /\ Min(CommonSet(before, Visited, neighbors[1])) = 0
           /\ Min(CommonSet(before, Visited, neighbors[2])) = 2
           /\ before.bonds[b].type # "TRIPLE"
           /\ mol.bonds[b].type = "TRIPLE"

(***************************************************************************)
(* Properties of the MOL2 reader.  The block and the file are read here on *)
(* the terms of the format, apart from the reader.                         *)
(***************************************************************************)
\* the counts that the header of a block declares
DeclaredAtoms(blk) == ToInt(Split(blk[3])[1])

DeclaredBonds(blk) == ToInt(Split(blk[3])[2])

\* the atom lines and the bond lines of a block laid out as the format says
InputAtoms(blk) == SubSeq(blk, 7, 6 + DeclaredAtoms(blk))

InputBonds(blk) ==
    SubSeq(blk, 8 + DeclaredAtoms(blk), 7 + DeclaredAtoms(blk) + DeclaredBonds(blk))

AtomId(line) == Split(line)[1]

ResidueOf(line) == Split(line)[8]

\* a well-formed single-molecule block with unique atom ids
WellFormed(blk) ==
    /\ Len(blk) >= 6
    /\ blk[1] = <<MOLECULE>>
    /\ blk[6] = <<ATOM>>
    /\ Len(Split(blk[3])) = 2
    /\ \A t \in Range(Split(blk[3])) : IsInt(t)
    /\ Len(blk) = 7 + DeclaredAtoms(blk) + DeclaredBonds(blk)
    /\ blk[7 + DeclaredAtoms(blk)] = <<BOND>>
    /\ \A l \in Range(InputAtoms(blk)) : Len(Split(l)) = 8 /\ IsInt(AtomId(l))
    /\ \A j, k \in DOMAIN InputAtoms(blk) :
          j # k => AtomId(InputAtoms(blk)[j]) # AtomId(InputAtoms(blk)[k])
    /\ \A l \in Range(InputBonds(blk)) :
          /\ Len(Split(l)) = 4
          /\ \A e \in 2..3 :
                \E a \in Range(InputAtoms(blk)) : AtomId(a) = Split(l)[e]

\* the residue name of the atom that a well-formed block gives the id
ResidueOfId(blk, id) ==
    ResidueOf(CHOOSE a \in Range(InputAtoms(blk)) : AtomId(a) = id)

\* a bond of the block between two atoms of the residue r
Within(blk, r, bond_line) ==
    /\ ResidueOfId(blk, Split(bond_line)[2]) = r
    /\ ResidueOfId(blk, Split(bond_line)[3]) = r

\* a bond of the block between atoms of two residues
InterResidue(blk, bond_line) ==
    ResidueOfId(blk, Split(bond_line)[2]) # ResidueOfId(blk, Split(bond_line)[3])

RECURSIVE Total(_, _)
\* the lengths of the lists f[r], r in S, added up
Total(f, S) ==
    IF S = {} THEN 0
    ELSE LET r == CHOOSE x \in S : TRUE
         IN  Len(f[r]) + Total(f, S \ {r})

\* the atom lines and the bond lines of a synthesized block
EmittedAtoms(blk) == SubSeq(blk, 7, 6 + DeclaredAtoms(blk))

EmittedBonds(blk) == SubSeq(blk, 8 + DeclaredAtoms(blk), Len(blk))

\* C3: for a well-formed block with unique atom ids, every atom line is in
\* the list of exactly one residue, that of its residue name, and the lists
\* hold as many atoms as the block; the bonds of a residue are the bonds of
\* the block with both atoms in that residue, in the order of the block; the
\* residues hold at most as many bonds as the block, and as many if and only
\* if no bond joins two residues; each block synthesized holds those lines.
C3_PartitionByResidue ==
    (pc \in {"build", "built"} /\ WellFormed(block)) =>
      /\ resnames = {ResidueOf(a) : a \in Range(InputAtoms(block))}
      /\ \A a \in Range(InputAtoms(block)) :
            \A r \in resnames :
               (\E k \in DOMAIN atoms[r] : atoms[r][k] = a) <=> ResidueOf(a) = r
      /\ Total(atoms, resnames) = DeclaredAtoms(block)
      /\ \A r \in resnames :
            LET within(l) == Within(block, r, l)
            IN  bonds[r] = SelectSeq(InputBonds(block), within)
      /\ Total(bonds, resnames) <= DeclaredBonds(block)
      /\ Total(bonds, resnames) = DeclaredBonds(block)
            <=> ~\E l \in Range(InputBonds(block)) : InterResidue(block, l)
      /\ \A r \in DOMAIN handed :
            /\ Len(EmittedAtoms(handed[r].block)) = Len(atoms[r])
            /\ Len(EmittedBonds(handed[r].block)) = Len(bonds[r])
            /\ DeclaredBonds(handed[r].block) = Len(bonds[r])

\* C3 witness: a well-formed block of two residues with a bond from one to
\* the other has been split into two blocks, neither holding the bond.
C3_Witness ==
    /\ pc = "built"
    /\ WellFormed(block)
    /\ Cardinality(resnames) = 2
    /\ DOMAIN handed = resnames
    /\ \E l \in Range(InputBonds(block)) : InterResidue(block, l)
    /\ \A r \in resnames : EmittedBonds(handed[r].block) = <<>>

\* C4 (as claimed): in the block synthesized for a residue of a block with
\* unique atom ids, the atom lines carry the ids 1..n in the order of the
\* input, the bonds the ids 1..m in the order of the input, and the two
\* atoms of a bond are the new ids of the atoms it joined in the input.
C4_LocalIds ==
    (pc \in {"build", "built"} /\ WellFormed(block)) =>
      \A r \in DOMAIN handed :
         LET new_atoms == EmittedAtoms(handed[r].block)
             new_bonds == EmittedBonds(handed[r].block)
             NewId(id) == CHOOSE k \in DOMAIN atoms[r] : AtomId(atoms[r][k]) = id
         IN  /\ \A k \in DOMAIN new_atoms : AtomId(new_atoms[k]) = Str(k)
             /\ \A k \in DOMAIN new_bonds :
                   /\ Split(new_bonds[k])[1] = Str(k)
                   /\ Split(new_bonds[k])[2] = Str(NewId(Split(bonds[r][k])[2]))
                   /\ Split(new_bonds[k])[3] = Str(NewId(Split(bonds[r][k])[3]))

\* C5 (as claimed): the reader returns only if the three lists of marker
\* positions have the same length.
C5_UnequalListsRaise ==
    pc = "returned" =>
      /\ Len(records.mol_lines) = Len(records.first_atom_lines)
      /\ Len(records.mol_lines) = Len(records.first_bond_lines)

IsMarker(line) == Search(MOLECULE, line) \/ Search(ATOM, line) \/ Search(BOND, line)

RECURSIVE Available(_, _)
\* the data lines of the file that follow the 0-based line at, up to the next
\* marker or the end of the file
Available(ls, at) ==
    IF at + 1 >= Len(ls) THEN 0
    ELSE IF IsMarker(ls[at + 2]) THEN 0
    ELSE Available(ls, at + 1) + (IF ls[at + 2] = <<>> THEN 0 ELSE 1)

\* the declared counts of the k-th record fit the lines of its sections
CountsFit(ls, recs, k) ==
    /\ DeclaredAtoms(SubSeq(ls, recs.mol_lines[k] + 1, Len(ls)))
          <= Available(ls, recs.first_atom_lines[k])
    /\ DeclaredBonds(SubSeq(ls, recs.mol_lines[k] + 1, Len(ls)))
          <= Available(ls, recs.first_bond_lines[k])

\* C6 (as claimed): residues are returned for a record only if the counts
\* its header declares are no larger than the lines of its sections.
C6_ExcessCountsRaise ==
    (pc = "zip" /\ zipped > 0) => CountsFit(lines, records, zipped)

\* C7 (as claimed): when the declared counts of a record fit, the block cut
\* out for it holds the header, the declared atom lines and every declared
\* bond line that follows the BOND marker of the record, whatever lies
\* between the last atom line and that marker.
C7_BlockHoldsBonds ==
    (pc = "group" /\ CountsFit(lines, records, zipped + 1)) =>
      LET mol_line == records.mol_lines[zipped + 1]
          first_atom_line == records.first_atom_lines[zipped + 1]
          first_bond_line == records.first_bond_lines[zipped + 1]
      IN  /\ block[1] = lines[mol_line + 1]
          /\ \A k \in 1..DeclaredAtoms(block) :
                block[first_atom_line - mol_line + 1 + k] = lines[first_atom_line + 1 + k]
          /\ \A k \in 1..DeclaredBonds(block) :
                /\ first_bond_line - mol_line + 1 + k <= Len(block)
                /\ block[first_bond_line - mol_line + 1 + k] = lines[first_bond_line + 1 + k]

\* C8: while the residues of a block are built and when all are built, the
\* list holds exactly the residues whose block the parser accepted, each
\* once and under its residue name, whatever the parser made of the others;
\* a failed parse is no error, and the loop goes on to every residue.
C8_FailedParseDropped ==
    /\ pc \in {"build", "built"} =>
         /\ {residues[k].resname : k \in DOMAIN residues}
               = {r \in DOMAIN handed : handed[r].parsed}
         /\ \A j, k \in DOMAIN residues :
               residues[j].resname = residues[k].resname => j = k
         /\ \A k \in DOMAIN residues :
               residues[k].block = handed[residues[k].resname].block
         /\ DOMAIN handed = resnames \ todo
    /\ pc = "built" => todo = {}

\* C8 witness: the parser failed on the block of one residue and accepted
\* the block of another, built after it; the list holds only the latter.
C8_Witness ==
    /\ pc = "built"
    /\ Len(residues) = 1
    /\ \E r \in resnames : ~handed[r].parsed
    /\ \E r \in resnames : handed[r].parsed /\ residues[1].resname = r

====
